---- MODULE Spec2Model ----
(***************************************************************************)
(* The delimited-text (CSV/TSV) tokenizer and table materializer of       *)
(* p5.prototype.loadTable, src/p5.js-master/src/io/files.js lines 326-531. *)
(*                                                                         *)
(* Text is modelled as a sequence of one-character strings, so a field is  *)
(* a sequence of characters and '' is the empty sequence.  The response    *)
(* callback of httpDo is modelled one loop iteration at a time (Scan),     *)
(* followed by the column/row set-up (Materialize) and the user callback.  *)
(***************************************************************************)
EXTENDS Integers, Sequences, FiniteSets, TLC

VARIABLES
    pc,             \* position of the load: see PcValues
    call,           \* files.js:326  the call being made: path extension and arguments
    preloadCount,   \* the sketch's count of loads that preload waits for
    sep,            \* files.js:332  var sep
    header,         \* files.js:330  var header
    callback,       \* files.js:327  TRUE when a success callback was passed
    errorCallback,  \* files.js:328  TRUE when an error callback was passed
    resp,           \* files.js:372  the response text handed to the callback
    state,          \* files.js:373  {currentState, token, escaped}
    records,        \* files.js:385
    offset,         \* files.js:386
    currentRecord,  \* files.js:387  Null or <<fields>>
    t,              \* files.js:369  the p5.Table: [columns, rows]
    calls,          \* the arguments the success callback was invoked with
    errCalls,       \* the arguments the error callback was invoked with
    err,            \* the error raised, NoError when none
    origin,         \* the table whose encoding resp is, NoTable for other text
    iterations,     \* files.js:412  passes of while (true) begun so far
    otherPending,   \* another loader of the sketch (loadJSON, loadStrings,
                    \* loadXML) still waits for its response
    loads,          \* two loads side by side: per call its position, its
                    \* locals and its references, see IdleLoad
    frames,         \* the locals of the callbacks invoked (files.js:373-388)
    tables          \* the tables made (files.js:369)

\* The variables of the single load.
soloVars == <<pc, call, preloadCount, sep, header, callback, errorCallback, resp,
              state, records, offset, currentRecord, t, calls, errCalls, err, origin,
              iterations, otherPending>>

\* The variables of the two loads running side by side.
pairVars == <<loads, frames, tables>>

vars == <<soloVars, pairVars>>

(***************************************************************************)
(* Bounds of the model.                                                    *)
(***************************************************************************)
MaxLen == 4     \* every text of at most MaxLen characters is a response
MaxArgs == 3    \* arguments of loadTable after the path
MaxCells == 3   \* fields (header included) of a table that is encoded

(***************************************************************************)
(* Characters and constants of the parser (files.js:376-383).              *)
(***************************************************************************)
PRE_TOKEN == "PRE_TOKEN"
MID_TOKEN == "MID_TOKEN"
POST_TOKEN == "POST_TOKEN"
POST_RECORD == "POST_RECORD"
NoState == "undefined"      \* state.currentState of the fresh object {}

QUOTE == "\""
CR == "\r"
LF == "\n"
COMMA == ","
TAB == "\t"

\* resp[i] past the end of the string is the JavaScript value undefined.
NoChar == "undefined"
\* String(undefined): what `token += undefined` appends.
Undefined == <<"u", "n", "d", "e", "f", "i", "n", "e", "d">>
\* The literal 'null' used as the synthesized column name (files.js:480).
NullName == <<"n", "u", "l", "l">>
\* The JavaScript value undefined where a field is expected (row[i] past the end).
JsUndefined == <<NoChar>>

Null == <<>>                \* currentRecord === null
NoError == "none"
UnclosedQuote == "Unclosed quote in file."
MultipleSeparators == "Cannot set multiple separator types."
TypeErrorMsg == "TypeError"
\* What the error handler receives when no response text is delivered: the
\* reason the fetch was rejected with, the response thrown at files.js:993,
\* or the reason res.text() (files.js:989) was rejected with.
FetchRejected == "fetch rejected"
ResponseNotOk == "response not ok"
TextRejected == "res.text() rejected"
RequestErrors == {FetchRejected, ResponseNotOk, TextRejected}
\* What the success callback threw (files.js:497).
CallbackThrew == "callback threw"
\* Object.prototype.__proto__ is an accessor: assigning a string or undefined
\* to this key of a plain object stores nothing.
ProtoName == <<"_", "_", "p", "r", "o", "t", "o", "_", "_">>

Chars == {"a", COMMA, TAB, QUOTE, CR, LF}


(***************************************************************************)
(* The p5.Table object (new p5.Table(): no columns, no rows) and addRow.   *)
(***************************************************************************)
NewTable == [columns |-> <<>>, rows |-> <<>>]

addRow(tbl, row) == [tbl EXCEPT !.rows = Append(@, row)]

(***************************************************************************)
(* Option parsing of loadTable (files.js:326-367).  An argument is one of  *)
(* the option strings or a function (FN).                                  *)
(***************************************************************************)
FN == "function"
ArgValues == {"header", "csv", "tsv", FN}
Exts == {"csv", "tsv", "txt"}

ArgLists == UNION {[1..n -> ArgValues] : n \in 0..MaxArgs}

\* Mutant of InitialOptions: the path's extension is not looked at.
InitialOptionsIgnoresExt(ext) ==
    [header |-> FALSE, sep |-> COMMA,
     separatorSet |-> FALSE, callback |-> FALSE, errorCallback |-> FALSE,
     thrown |-> FALSE]

\* Mutant of InitialOptions: the extension tsv counts as a separator option.
InitialOptionsExtCounts(ext) ==
    [header |-> FALSE, sep |-> IF ext = "tsv" THEN TAB ELSE COMMA,
     separatorSet |-> ext = "tsv", callback |-> FALSE, errorCallback |-> FALSE,
     thrown |-> FALSE]

\* files.js:327-337: the locals before the argument loop.
InitialOptions(ext) ==
    [header |-> FALSE, sep |-> IF ext = "tsv" THEN TAB ELSE COMMA,
     separatorSet |-> FALSE, callback |-> FALSE, errorCallback |-> FALSE,
     thrown |-> FALSE]

\* files.js:340-366: one pass of the argument loop.
OptionStep(acc, a) ==
    IF a = FN
    THEN IF ~acc.callback THEN [acc EXCEPT !.callback = TRUE]
         ELSE IF ~acc.errorCallback THEN [acc EXCEPT !.errorCallback = TRUE]
         ELSE acc
    ELSE LET h == IF a = "header" THEN [acc EXCEPT !.header = TRUE] ELSE acc
         IN IF a = "csv"
            THEN IF h.separatorSet THEN [h EXCEPT !.thrown = TRUE]
                 ELSE [h EXCEPT !.sep = COMMA, !.separatorSet = TRUE]
            ELSE IF a = "tsv"
            THEN IF h.separatorSet THEN [h EXCEPT !.thrown = TRUE]
                 ELSE [h EXCEPT !.sep = TAB, !.separatorSet = TRUE]
            ELSE h

RECURSIVE ParseOptions(_, _, _)
ParseOptions(args, i, acc) ==
    IF i > Len(args) \/ acc.thrown THEN acc
    ELSE ParseOptions(args, i + 1, OptionStep(acc, args[i]))

(***************************************************************************)
(* The tokenizer (files.js:373-473).  The locals of the response callback  *)
(* travel together as a record l = [state, records, offset, currentRecord].*)
(***************************************************************************)
Locals == [state |-> state, records |-> records, offset |-> offset,
           currentRecord |-> currentRecord]

\* resp[i] with the zero-based index of JavaScript.
CharAt(text, i) == IF i < Len(text) THEN text[i + 1] ELSE NoChar

\* The string a character contributes to `token += currentChar`.
ToStr(c) == IF c = NoChar THEN Undefined ELSE <<c>>

tokenBegin(l) ==
    [l EXCEPT !.state.currentState = PRE_TOKEN, !.state.token = <<>>]

\* Mutant of tokenEnd: an empty token is not pushed.
tokenEndSkipEmpty(l) ==
    tokenBegin(IF l.state.token = <<>> THEN l
               ELSE [l EXCEPT !.currentRecord = <<Append(@[1], l.state.token)>>])

\* Mutant of tokenEnd: the token buffer is not reset after the push.
tokenEndKeepsToken(l) ==
    [l EXCEPT !.currentRecord = <<Append(@[1], l.state.token)>>,
              !.state.currentState = PRE_TOKEN]

tokenEnd(l) ==
    tokenBegin([l EXCEPT !.currentRecord = <<Append(@[1], l.state.token)>>])

recordBegin(l) ==
    tokenBegin([l EXCEPT !.state.escaped = FALSE, !.currentRecord = <<<<>>>>])

\* Mutant of recordEnd: the state is left as tokenEnd set it.
recordEndKeepsState(l) ==
    [l EXCEPT !.records = Append(@, l.currentRecord[1]),
              !.currentRecord = Null]

recordEnd(l) ==
    [l EXCEPT !.state.currentState = POST_RECORD,
              !.records = Append(@, l.currentRecord[1]),
              !.currentRecord = Null]

\* Mutant of EscapedChar: the second quote of a doubled quote is not consumed.
EscapedCharNoSkip(l, c, text) ==
    IF c = QUOTE
    THEN IF CharAt(text, l.offset) = QUOTE
         THEN [l EXCEPT !.state.token = Append(@, QUOTE)]
         ELSE [l EXCEPT !.state.escaped = FALSE, !.state.currentState = POST_TOKEN]
    ELSE IF c = CR THEN l
    ELSE [l EXCEPT !.state.token = @ \o ToStr(c)]

\* Mutant of EscapedChar: a CR inside the quoted span is appended like any
\* other character.
EscapedCharKeepsCR(l, c, text) ==
    IF c = QUOTE
    THEN IF CharAt(text, l.offset) = QUOTE
         THEN [l EXCEPT !.state.token = Append(@, QUOTE), !.offset = @ + 1]
         ELSE [l EXCEPT !.state.escaped = FALSE, !.state.currentState = POST_TOKEN]
    ELSE [l EXCEPT !.state.token = @ \o ToStr(c)]

\* Mutant of EscapedChar: the closing quote is stepped back over and read
\* again.
EscapedCharRewinds(l, c, text) ==
    IF c = QUOTE
    THEN IF CharAt(text, l.offset) = QUOTE
         THEN [l EXCEPT !.state.token = Append(@, QUOTE), !.offset = @ + 1]
         ELSE [l EXCEPT !.state.escaped = FALSE, !.state.currentState = POST_TOKEN,
                        !.offset = @ - 1]
    ELSE IF c = CR THEN l
    ELSE [l EXCEPT !.state.token = @ \o ToStr(c)]

\* files.js:441-456: mid-token and escaped.
EscapedChar(l, c, text) ==
    IF c = QUOTE
    THEN IF CharAt(text, l.offset) = QUOTE
         THEN [l EXCEPT !.state.token = Append(@, QUOTE), !.offset = @ + 1]
         ELSE [l EXCEPT !.state.escaped = FALSE, !.state.currentState = POST_TOKEN]
    ELSE IF c = CR THEN l
    ELSE [l EXCEPT !.state.token = @ \o ToStr(c)]

\* Mutant of UnescapedChar: the LF after a CR is left for the next iteration.
UnescapedCharNoLookahead(l, c, text, sp) ==
    IF c = CR \/ c = LF THEN recordEnd(tokenEnd(l))
    ELSE IF c = sp THEN tokenEnd(l)
    ELSE IF l.state.currentState = MID_TOKEN
    THEN [l EXCEPT !.state.token = @ \o ToStr(c)]
    ELSE l

\* Mutant of UnescapedChar: a character is appended in POST_TOKEN as well.
UnescapedCharAppendsAlways(l, c, text, sp) ==
    IF c = CR
    THEN recordEnd(tokenEnd(IF CharAt(text, l.offset) = LF
                            THEN [l EXCEPT !.offset = @ + 1] ELSE l))
    ELSE IF c = LF THEN recordEnd(tokenEnd(l))
    ELSE IF c = sp THEN tokenEnd(l)
    ELSE [l EXCEPT !.state.token = @ \o ToStr(c)]

\* files.js:458-472: mid-token or post-token, not escaped.
UnescapedChar(l, c, text, sp) ==
    IF c = CR
    THEN recordEnd(tokenEnd(IF CharAt(text, l.offset) = LF
                            THEN [l EXCEPT !.offset = @ + 1] ELSE l))
    ELSE IF c = LF THEN recordEnd(tokenEnd(l))
    ELSE IF c = sp THEN tokenEnd(l)
    ELSE IF l.state.currentState = MID_TOKEN
    THEN [l EXCEPT !.state.token = @ \o ToStr(c)]
    ELSE l

\* Mutant of EofControl: the pending record is flushed before the open
\* quote is looked at.
EofControlBreakFirst(l, c) ==
    IF c = NoChar /\ l.currentRecord # Null THEN "break"
    ELSE IF c = NoChar /\ l.state.escaped THEN "throw"
    ELSE "loop"

\* files.js:415-425: what the end-of-input test decides for this iteration.
EofControl(l, c) ==
    IF c = NoChar /\ l.state.escaped THEN "throw"
    ELSE IF c = NoChar /\ l.currentRecord # Null THEN "break"
    ELSE "loop"

\* Mutant of Dispatch: LF ends the record inside a quoted span too.
DispatchNewlineEnds(l1, c, text, sp) ==
    LET l2 == IF l1.currentRecord = Null THEN recordBegin(l1) ELSE l1
    IN IF l2.state.currentState = PRE_TOKEN /\ c = QUOTE
       THEN [l2 EXCEPT !.state.escaped = TRUE, !.state.currentState = MID_TOKEN]
       ELSE LET l3 == IF l2.state.currentState = PRE_TOKEN
                      THEN [l2 EXCEPT !.state.currentState = MID_TOKEN]
                      ELSE l2
            IN IF l3.state.currentState = MID_TOKEN /\ l3.state.escaped /\ c # LF
               THEN EscapedChar(l3, c, text)
               ELSE UnescapedChar(l3, c, text, sp)

\* Mutant of Dispatch: the opening quote is copied into the token.
DispatchKeepsOpeningQuote(l1, c, text, sp) ==
    LET l2 == IF l1.currentRecord = Null THEN recordBegin(l1) ELSE l1
    IN IF l2.state.currentState = PRE_TOKEN /\ c = QUOTE
       THEN [l2 EXCEPT !.state.escaped = TRUE, !.state.currentState = MID_TOKEN,
                       !.state.token = Append(@, QUOTE)]
       ELSE LET l3 == IF l2.state.currentState = PRE_TOKEN
                      THEN [l2 EXCEPT !.state.currentState = MID_TOKEN]
                      ELSE l2
            IN IF l3.state.currentState = MID_TOKEN /\ l3.state.escaped
               THEN EscapedChar(l3, c, text)
               ELSE UnescapedChar(l3, c, text, sp)

\* Mutant of Dispatch: a character seen in PRE_TOKEN only moves the state
\* to MID_TOKEN and is not examined further.
DispatchSkipsFirstChar(l1, c, text, sp) ==
    LET l2 == IF l1.currentRecord = Null THEN recordBegin(l1) ELSE l1
    IN IF l2.state.currentState = PRE_TOKEN /\ c = QUOTE
       THEN [l2 EXCEPT !.state.escaped = TRUE, !.state.currentState = MID_TOKEN]
       ELSE IF l2.state.currentState = PRE_TOKEN
       THEN [l2 EXCEPT !.state.currentState = MID_TOKEN]
       ELSE IF l2.state.currentState = MID_TOKEN /\ l2.state.escaped
       THEN EscapedChar(l2, c, text)
       ELSE UnescapedChar(l2, c, text, sp)

\* Mutant of Dispatch: a quote opens a quoted span inside an unquoted field
\* as well.
DispatchQuoteOpensAnywhere(l1, c, text, sp) ==
    LET l2 == IF l1.currentRecord = Null THEN recordBegin(l1) ELSE l1
    IN IF ~l2.state.escaped /\ l2.state.currentState \in {PRE_TOKEN, MID_TOKEN}
          /\ c = QUOTE
       THEN [l2 EXCEPT !.state.escaped = TRUE, !.state.currentState = MID_TOKEN]
       ELSE LET l3 == IF l2.state.currentState = PRE_TOKEN
                      THEN [l2 EXCEPT !.state.currentState = MID_TOKEN]
                      ELSE l2
            IN IF l3.state.currentState = MID_TOKEN /\ l3.state.escaped
               THEN EscapedChar(l3, c, text)
               ELSE UnescapedChar(l3, c, text, sp)

\* files.js:426-472: the rest of an iteration that neither threw nor broke.
Dispatch(l1, c, text, sp) ==
    LET l2 == IF l1.currentRecord = Null THEN recordBegin(l1) ELSE l1
    IN IF l2.state.currentState = PRE_TOKEN /\ c = QUOTE
       THEN [l2 EXCEPT !.state.escaped = TRUE, !.state.currentState = MID_TOKEN]
       ELSE LET l3 == IF l2.state.currentState = PRE_TOKEN
                      THEN [l2 EXCEPT !.state.currentState = MID_TOKEN]
                      ELSE l2
            IN IF l3.state.currentState = MID_TOKEN /\ l3.state.escaped
               THEN EscapedChar(l3, c, text)
               ELSE UnescapedChar(l3, c, text, sp)

\* Mutant of Iteration: the loop stops at the end of input also when no
\* record is open, so nothing is emitted for an empty tail.
IterationStopAtEof(l, text, sp) ==
    LET c == CharAt(text, l.offset)
        l1 == [l EXCEPT !.offset = @ + 1]
    IN IF c = NoChar /\ l1.state.escaped THEN [ctl |-> "throw", l |-> l1]
       ELSE IF c = NoChar
       THEN [ctl |-> "break",
             l |-> IF l1.currentRecord # Null THEN recordEnd(tokenEnd(l1)) ELSE l1]
       ELSE [ctl |-> "loop", l |-> Dispatch(l1, c, text, sp)]

\* Mutant of Iteration: at the end of input the record is emitted without
\* closing the pending token.
IterationDropsLastToken(l, text, sp) ==
    LET c == CharAt(text, l.offset)
        l1 == [l EXCEPT !.offset = @ + 1]
        ctl == EofControl(l1, c)
    IN IF ctl = "throw" THEN [ctl |-> "throw", l |-> l1]
       ELSE IF ctl = "break" THEN [ctl |-> "break", l |-> recordEnd(l1)]
       ELSE [ctl |-> "loop", l |-> Dispatch(l1, c, text, sp)]

\* files.js:412-473: one iteration of while (true).
Iteration(l, text, sp) ==
    LET c == CharAt(text, l.offset)
        l1 == [l EXCEPT !.offset = @ + 1]
        ctl == EofControl(l1, c)
    IN IF ctl = "throw" THEN [ctl |-> "throw", l |-> l1]
       ELSE IF ctl = "break" THEN [ctl |-> "break", l |-> recordEnd(tokenEnd(l1))]
       ELSE [ctl |-> "loop", l |-> Dispatch(l1, c, text, sp)]

(***************************************************************************)
(* The materializer (files.js:475-495) and makeObject (files.js:517-531).  *)
(***************************************************************************)
\* The keys of the object are the header names; a repeated name keeps the
\* value of its highest index, a header past the row's end maps to undefined.
\* ret[key] = val (files.js:528) with the key __proto__ goes to the setter
\* of Object.prototype and creates no key.
makeObject(row, headers) ==
    [k \in {headers[i] : i \in 1..Len(headers)} \ {ProtoName} |->
        LET last == CHOOSE i \in 1..Len(headers) :
                        /\ headers[i] = k
                        /\ \A j \in 1..Len(headers) : headers[j] = k => j <= i
        IN IF last <= Len(row) THEN row[last] ELSE JsUndefined]

\* Mutant of ColumnSetUp: the header record is read but not removed.
ColumnSetUpKeepsHeader(hdr, recs) ==
    IF hdr THEN [columns |-> recs[1], data |-> recs]
    ELSE [columns |-> [i \in 1..Len(recs[1]) |-> NullName], data |-> recs]

\* files.js:476-482: the column names and the records left as data.
\* Defined only for a non-empty record list.
ColumnSetUp(hdr, recs) ==
    IF hdr THEN [columns |-> recs[1], data |-> Tail(recs)]
    ELSE [columns |-> [i \in 1..Len(recs[1]) |-> NullName], data |-> recs]

\* Mutant of Skipped: the test of the record's length is missing.
SkippedAnyLength(rec) == rec[1] = Undefined \/ rec[1] = <<>>

\* Mutant of Skipped: only the empty field is tested for.
SkippedOnlyEmpty(rec) == Len(rec) = 1 /\ rec[1] = <<>>

\* files.js:486-490: the record is skipped.
Skipped(rec) == Len(rec) = 1 /\ (rec[1] = Undefined \/ rec[1] = <<>>)

RECURSIVE AddRowsDropsLastOnly(_, _, _)
\* Mutant of AddRows: only the last record is tested for the exclusion.
AddRowsDropsLastOnly(tbl, data, i) ==
    IF i > Len(data) THEN tbl
    ELSE IF i = Len(data) /\ Skipped(data[i]) THEN tbl
    ELSE AddRowsDropsLastOnly(addRow(tbl, [arr |-> data[i],
                                          obj |-> makeObject(data[i], tbl.columns)]),
                              data, i + 1)

RECURSIVE AddRows(_, _, _)
\* files.js:484-495: the loop over the data records from index i.
AddRows(tbl, data, i) ==
    IF i > Len(data) THEN tbl
    ELSE IF Skipped(data[i]) THEN AddRows(tbl, data, i + 1)
    ELSE AddRows(addRow(tbl, [arr |-> data[i],
                             obj |-> makeObject(data[i], tbl.columns)]),
                 data, i + 1)

(***************************************************************************)
(* Tables that are written out as comma-separated text and loaded again:   *)
(* a table is a non-empty sequence of rows, its first row the column names.*)
(***************************************************************************)
NoTable == <<>>

FieldValues == {<<>>, <<"a">>, <<QUOTE, COMMA, LF>>, <<CR>>, Undefined}

RowsOf(n) == [1..n -> FieldValues]

RECURSIVE TablesOf(_)
\* The tables of exactly n fields.
TablesOf(n) ==
    {<<r>> : r \in RowsOf(n)} \cup
    UNION {{Append(tb, r) : tb \in TablesOf(n - k), r \in RowsOf(k)} : k \in 1..(n - 1)}

Tables == UNION {TablesOf(n) : n \in 1..MaxCells}

RECURSIVE QuoteField(_)
\* The field with every quote doubled.
QuoteField(f) ==
    IF f = <<>> THEN <<>>
    ELSE (IF Head(f) = QUOTE THEN <<QUOTE, QUOTE>> ELSE <<Head(f)>>) \o QuoteField(Tail(f))

RECURSIVE EncodeRow(_)
EncodeRow(row) ==
    IF row = <<>> THEN <<>>
    ELSE <<QUOTE>> \o QuoteField(Head(row)) \o <<QUOTE>>
         \o (IF Len(row) > 1 THEN <<COMMA>> ELSE <<>>) \o EncodeRow(Tail(row))

RECURSIVE EncodeCSV(_, _)
\* One line per row, LF between lines, and LF after the last when nl.
EncodeCSV(tb, nl) ==
    IF tb = <<>> THEN <<>>
    ELSE EncodeRow(Head(tb))
         \o (IF Len(tb) > 1 \/ nl THEN <<LF>> ELSE <<>>)
         \o EncodeCSV(Tail(tb), nl)

(***************************************************************************)
(* Responses: every short text, and the examples of the specification.     *)
(***************************************************************************)
ShortTexts == UNION {[1..n -> Chars] : n \in 0..MaxLen}

ExDoubledQuote == <<QUOTE, "a", QUOTE, QUOTE, "b", QUOTE>>
ExQuotedSep == <<"a", COMMA, QUOTE, "b", COMMA, "c", QUOTE, COMMA, "d">>
ExQuotedLF == <<QUOTE, "l", "i", "n", "e", "1", LF, "l", "i", "n", "e", "2",
                QUOTE, COMMA, "x">>
ExCRLF == <<"a", CR, LF, "b", CR, LF>>
ExUnclosed == <<QUOTE, "a", "b", "c">>
ExRecordsThenUnclosed == <<"a", COMMA, "b", LF, QUOTE, "c">>

ExIrregular == <<QUOTE, "a", QUOTE, "b", LF, LF, "c", COMMA, "d">>
ExCRInAndOut == <<QUOTE, "a", CR, "b", QUOTE, CR, "c">>

ExNoNewline == <<"a", COMMA, "b">>
ExTrailingSep == <<"a", COMMA>>
ExLiteralUndefined == Undefined \o <<LF, "a", LF, LF, "b", COMMA, "c">>
ExEmptyQuoted == <<QUOTE, QUOTE>>
ExCRLFPair == <<"a", CR, LF, "b">>
ExLFThenCR == <<"a", LF, CR, "b">>
ExStrayAfterQuote == <<QUOTE, "a", QUOTE, "b", COMMA, "c">>
ExQuoteInside == <<"a", QUOTE, "b">>
ExProtoHeader == <<"a", COMMA>> \o ProtoName \o <<LF, "b", COMMA, "c">>

Examples == {ExDoubledQuote, ExQuotedSep, ExQuotedLF, ExCRLF, ExUnclosed,
             ExRecordsThenUnclosed, ExIrregular, ExCRInAndOut, ExNoNewline,
             ExTrailingSep, ExLiteralUndefined, ExEmptyQuoted, ExCRLFPair,
             ExLFThenCR, ExStrayAfterQuote, ExQuoteInside, ExProtoHeader}

(***************************************************************************)
(* The state machine.                                                      *)
(***************************************************************************)
PcValues == {"idle", "options", "argerror", "request", "pending", "scan",
             "materialize", "callback", "decrement", "done", "thrown", "errored",
             "rethrown"}

\* No call is being set up: before loadTable is called and once the request
\* is issued, after which the arguments are not read again.
NoCall == [ext |-> "none", args |-> <<>>]

\* The calls that run side by side.
Loads == {1, 2}

\* files.js:373-388: the locals of a response callback that has just started.
InitialLocals ==
    [state |-> [currentState |-> NoState, token |-> <<>>, escaped |-> FALSE],
     records |-> <<>>, offset |-> 0, currentRecord |-> Null]

\* No object: a reference not yet made.
NoRef == 0

\* A call not yet made: the locals of loadTable (files.js:327-333, 369), the
\* reference to the locals of its callback, the response, the error raised
\* and what its two callbacks were invoked with.
IdleLoad ==
    [pc |-> "idle", sep |-> COMMA, header |-> FALSE, callback |-> FALSE,
     errorCallback |-> FALSE, t |-> NoRef, frame |-> NoRef, resp |-> <<>>,
     err |-> NoError, calls |-> <<>>, errCalls |-> <<>>]

Init ==
    /\ pc = "idle"
    /\ call = NoCall
    /\ otherPending = TRUE
    /\ preloadCount = 2     \* this load and the other loader's
    /\ sep = COMMA
    /\ header = FALSE
    /\ callback = FALSE
    /\ errorCallback = FALSE
    /\ resp = <<>>
    /\ state = [currentState |-> NoState, token |-> <<>>, escaped |-> FALSE]
    /\ records = <<>>
    /\ offset = 0
    /\ currentRecord = Null
    /\ t = NewTable
    /\ calls = <<>>
    /\ errCalls = <<>>
    /\ err = NoError
    /\ origin = NoTable
    /\ iterations = 0
    /\ loads = [k \in Loads |-> IdleLoad]
    /\ frames = <<>>
    /\ tables = <<>>

\* A sketch calls loadTable(path, ...arguments).
Invoke ==
    /\ pc = "idle"
    /\ pc' = "options"
    /\ \E ext \in Exts, args \in ArgLists : call' = [ext |-> ext, args |-> args]
    /\ UNCHANGED <<preloadCount, sep, header, callback, errorCallback, resp, state,
                   records, offset, currentRecord, t, calls, errCalls, err, origin>>
    /\ UNCHANGED pairVars
    /\ UNCHANGED iterations
    /\ UNCHANGED otherPending

\* files.js:326-367: the locals and the argument loop of loadTable.
loadTable ==
    /\ pc = "options"
    /\ LET o == ParseOptions(call.args, 1, InitialOptions(call.ext))
       IN /\ sep' = o.sep
          /\ header' = o.header
          /\ callback' = o.callback
          /\ errorCallback' = o.errorCallback
          /\ IF o.thrown
             THEN pc' = "argerror" /\ err' = MultipleSeparators
             ELSE pc' = "request" /\ err' = err
    /\ UNCHANGED <<call, preloadCount, resp, state, records, offset, currentRecord,
                   t, calls, errCalls, origin>>
    /\ UNCHANGED pairVars
    /\ UNCHANGED iterations
    /\ UNCHANGED otherPending

\* files.js:369-372, 513: the table is created, the request issued and the
\* table returned.
httpDo ==
    /\ pc = "request"
    /\ pc' = "pending"
    /\ t' = NewTable
    /\ call' = NoCall
    /\ UNCHANGED <<preloadCount, sep, header, callback, errorCallback, resp, state,
                   records, offset, currentRecord, calls, errCalls, err, origin>>
    /\ UNCHANGED pairVars
    /\ UNCHANGED iterations
    /\ UNCHANGED otherPending

\* files.js:372-388: the response arrives and the callback sets up its locals.
Begin(text, tb) ==
    /\ pc = "pending"
    /\ pc' = "scan"
    /\ resp' = text
    /\ origin' = tb
    /\ state' = [currentState |-> NoState, token |-> <<>>, escaped |-> FALSE]
    /\ records' = <<>>
    /\ offset' = 0
    /\ currentRecord' = Null
    /\ iterations' = 0
    /\ UNCHANGED <<call, preloadCount, sep, header, callback, errorCallback, t,
                   calls, errCalls, err>>
    /\ UNCHANGED pairVars
    /\ UNCHANGED otherPending

Respond ==
    /\ pc = "pending"
    /\ \E text \in ShortTexts \cup Examples : Begin(text, NoTable)

\* The response is a table written as comma-separated text with a header line.
RespondEncoded ==
    /\ pc = "pending"
    /\ sep = COMMA
    /\ header
    /\ \E tb \in Tables, nl \in BOOLEAN : Begin(EncodeCSV(tb, nl), tb)

\* files.js:412-473: one iteration of the parse loop.
Scan ==
    /\ pc = "scan"
    /\ LET r == Iteration(Locals, resp, sep)
       IN /\ state' = r.l.state
          /\ records' = r.l.records
          /\ offset' = r.l.offset
          /\ currentRecord' = r.l.currentRecord
          /\ pc' = CASE r.ctl = "throw" -> "thrown"
                     [] r.ctl = "break" -> "materialize"
                     [] OTHER -> "scan"
          /\ err' = IF r.ctl = "throw" THEN UnclosedQuote ELSE err
    /\ iterations' = iterations + 1
    /\ UNCHANGED <<call, preloadCount, sep, header, callback, errorCallback, resp,
                   t, calls, errCalls, origin>>
    /\ UNCHANGED pairVars
    /\ UNCHANGED otherPending

\* files.js:475-495: column names and rows.
Materialize ==
    /\ pc = "materialize"
    /\ IF records = <<>>
       THEN \* records[0].length and records.shift() of an empty list
            IF header
            THEN /\ t' = [t EXCEPT !.columns = <<NoChar>>]
                 /\ records' = records
                 /\ pc' = "callback"
                 /\ err' = err
            ELSE /\ pc' = "thrown"
                 /\ err' = TypeErrorMsg
                 /\ UNCHANGED <<t, records>>
       ELSE LET cs == ColumnSetUp(header, records)
            IN /\ t' = AddRows([t EXCEPT !.columns = cs.columns], cs.data, 1)
               /\ records' = cs.data
               /\ pc' = "callback"
               /\ err' = err
    /\ UNCHANGED <<call, preloadCount, sep, header, callback, errorCallback, resp,
                   state, offset, currentRecord, calls, errCalls, origin>>
    /\ UNCHANGED pairVars
    /\ UNCHANGED iterations
    /\ UNCHANGED otherPending

\* Mutant of InvokeCallback: the count is decremented along with the call.
InvokeCallbackAndDecrement ==
    /\ pc = "callback"
    /\ calls' = IF callback THEN Append(calls, t) ELSE calls
    /\ preloadCount' = preloadCount - 1
    /\ \/ pc' = "decrement" /\ err' = err
       \/ callback /\ pc' = "thrown" /\ err' = CallbackThrew
    /\ UNCHANGED <<call, sep, header, callback, errorCallback, resp,
                   state, records, offset, currentRecord, t, errCalls, origin>>
    /\ UNCHANGED pairVars
    /\ UNCHANGED iterations
    /\ UNCHANGED otherPending

\* The effect of p5.prototype._decrementPreload on the count.
decrementPreload(n) == n - 1

\* files.js:496-498: the success callback, when one was passed.  It returns,
\* or it throws and the rest of the response callback is skipped.
InvokeCallback ==
    /\ pc = "callback"
    /\ calls' = IF callback THEN Append(calls, t) ELSE calls
    /\ \/ pc' = "decrement" /\ err' = err
       \/ callback /\ pc' = "thrown" /\ err' = CallbackThrew
    /\ UNCHANGED <<call, preloadCount, sep, header, callback, errorCallback, resp,
                   state, records, offset, currentRecord, t, errCalls, origin>>
    /\ UNCHANGED pairVars
    /\ UNCHANGED iterations
    /\ UNCHANGED otherPending

\* files.js:500: self._decrementPreload().
DecrementPreload ==
    /\ pc = "decrement"
    /\ pc' = "done"
    /\ preloadCount' = decrementPreload(preloadCount)
    /\ UNCHANGED <<call, sep, header, callback, errorCallback, resp, state, records,
                   offset, currentRecord, t, calls, errCalls, err, origin>>
    /\ UNCHANGED pairVars
    /\ UNCHANGED iterations
    /\ UNCHANGED otherPending

\* files.js:983-994: the fetch is rejected, the response is not ok and is
\* thrown, or its body cannot be read; the response callback is never run.
httpDoRejects ==
    /\ pc = "pending"
    /\ pc' = "thrown"
    /\ err' \in RequestErrors
    /\ UNCHANGED <<call, preloadCount, sep, header, callback, errorCallback, resp,
                   state, records, offset, currentRecord, t, calls, errCalls, origin>>
    /\ UNCHANGED pairVars
    /\ UNCHANGED iterations
    /\ UNCHANGED otherPending

\* No callback of this load is running: another loader's callback can run.
\* The handler passed to .catch (files.js:1002) is a later job than the
\* callback that threw, so the load is between callbacks at "thrown" too.
Quiescent ==
    pc \in {"idle", "argerror", "pending", "done", "thrown", "errored", "rethrown"}

\* files.js:131-139, 205-231, 623-647: the response callback of another
\* loader of the same sketch ends with self._decrementPreload().
OtherLoaderResponds ==
    /\ Quiescent
    /\ otherPending
    /\ otherPending' = FALSE
    /\ preloadCount' = decrementPreload(preloadCount)
    /\ UNCHANGED <<pc, call, sep, header, callback, errorCallback, resp, state,
                   records, offset, currentRecord, t, calls, errCalls, err, origin>>
    /\ UNCHANGED pairVars
    /\ UNCHANGED iterations

\* Mutant of ErrorHandler: the success callback is invoked with the table
\* where the error callback should be.
ErrorHandlerCallsBack ==
    /\ pc = "thrown"
    /\ IF errorCallback
       THEN pc' = "errored" /\ errCalls' = Append(errCalls, err)
       ELSE pc' = "rethrown" /\ errCalls' = errCalls
    /\ calls' = IF callback THEN Append(calls, t) ELSE calls
    /\ UNCHANGED <<call, preloadCount, sep, header, callback, errorCallback, resp,
                   state, records, offset, currentRecord, t, err, origin>>
    /\ UNCHANGED pairVars
    /\ UNCHANGED iterations
    /\ UNCHANGED otherPending

\* Mutant of ErrorHandler: without an error callback the error is dropped.
ErrorHandlerSwallows ==
    /\ pc = "thrown"
    /\ pc' = "errored"
    /\ errCalls' = IF errorCallback THEN Append(errCalls, err) ELSE errCalls
    /\ UNCHANGED <<call, preloadCount, sep, header, callback, errorCallback, resp,
                   state, records, offset, currentRecord, t, calls, err, origin>>
    /\ UNCHANGED pairVars
    /\ UNCHANGED iterations
    /\ UNCHANGED otherPending

\* files.js:502-511 with 1002-1008: the error handler of the request, run
\* for whatever the chain of httpDo was rejected with.
ErrorHandler ==
    /\ pc = "thrown"
    /\ IF errorCallback
       THEN pc' = "errored" /\ errCalls' = Append(errCalls, err)
       ELSE pc' = "rethrown" /\ errCalls' = errCalls
    /\ UNCHANGED <<call, preloadCount, sep, header, callback, errorCallback, resp,
                   state, records, offset, currentRecord, t, calls, err, origin>>
    /\ UNCHANGED pairVars
    /\ UNCHANGED iterations
    /\ UNCHANGED otherPending

(***************************************************************************)
(* Two loads side by side.  Every call of loadTable has its own locals     *)
(* (files.js:327-333) and makes its own table (369); every invocation of   *)
(* the response callback makes its own locals (373-388).  The callback     *)
(* reaches the call's locals and its table through its closure.  The two   *)
(* calls are made on the same sketch, so self (371) is the same object and *)
(* its preload count is the one state they share.  The iterations of the   *)
(* two parse loops are taken in any order, which includes the orders in    *)
(* which each callback runs to its end.                                    *)
(***************************************************************************)
\* Mutant of NewTableRef: one table, made once, serves every call.
NewTableRefShared(heap) == 1

\* files.js:369: new p5.Table() is an object no earlier call has made.
NewTableRef(heap) == Len(heap) + 1

\* files.js:372-388: the locals of this invocation of the callback.
NewFrameRef(heap) == Len(heap) + 1

\* The heap with the value v stored under the reference ref.
Store(heap, ref, v) ==
    IF ref > Len(heap) THEN Append(heap, v) ELSE [heap EXCEPT ![ref] = v]

PairTexts == {<<>>,
              <<"a", COMMA, "b">>,
              <<QUOTE, "a", LF, QUOTE>>,
              <<QUOTE, "a">>,
              <<"a", LF, TAB, "b", LF>>}

\* files.js:326-372: call k parses its options, throws at 353 or 360, or
\* creates its table and issues its request.
PairCall(k) ==
    /\ loads[k].pc = "idle"
    /\ \E ext \in Exts, args \in ArgLists :
          LET o == ParseOptions(args, 1, InitialOptions(ext))
              set == [loads[k] EXCEPT !.sep = o.sep, !.header = o.header,
                                      !.callback = o.callback,
                                      !.errorCallback = o.errorCallback]
              ref == NewTableRef(tables)
          IN IF o.thrown
             THEN /\ loads' = [loads EXCEPT ![k] =
                                  [set EXCEPT !.pc = "argerror",
                                              !.err = MultipleSeparators]]
                  /\ tables' = tables
             ELSE /\ loads' = [loads EXCEPT ![k] =
                                  [set EXCEPT !.pc = "pending", !.t = ref]]
                  /\ tables' = Store(tables, ref, NewTable)
    /\ UNCHANGED frames
    /\ UNCHANGED soloVars

\* files.js:983-994: the request of call k fails before its callback.
PairRejects(k) ==
    /\ loads[k].pc = "pending"
    /\ \E e \in RequestErrors :
          loads' = [loads EXCEPT ![k].pc = "thrown", ![k].err = e]
    /\ UNCHANGED <<frames, tables>>
    /\ UNCHANGED soloVars

\* files.js:372-388: the response of call k arrives and its callback sets
\* up its locals.
PairRespond(k) ==
    /\ loads[k].pc = "pending"
    /\ LET ref == NewFrameRef(frames)
       IN /\ \E text \in PairTexts :
                loads' = [loads EXCEPT ![k].pc = "scan", ![k].resp = text,
                                       ![k].frame = ref]
          /\ frames' = Store(frames, ref, InitialLocals)
    /\ UNCHANGED tables
    /\ UNCHANGED soloVars

\* files.js:412-473: one iteration of the parse loop of call k.
PairScan(k) ==
    /\ loads[k].pc = "scan"
    /\ LET r == Iteration(frames[loads[k].frame], loads[k].resp, loads[k].sep)
       IN /\ frames' = [frames EXCEPT ![loads[k].frame] = r.l]
          /\ loads' = [loads EXCEPT
                          ![k].pc = CASE r.ctl = "throw" -> "thrown"
                                      [] r.ctl = "break" -> "materialize"
                                      [] OTHER -> "scan",
                          ![k].err = IF r.ctl = "throw" THEN UnclosedQuote ELSE @]
    /\ UNCHANGED tables
    /\ UNCHANGED soloVars

\* files.js:475-495: columns and rows of the table of call k.
PairMaterialize(k) ==
    /\ loads[k].pc = "materialize"
    /\ LET ld == loads[k]
           recs == frames[ld.frame].records
           tb == tables[ld.t]
       IN IF recs = <<>>
          THEN \* records[0].length and records.shift() of an empty list
               IF ld.header
               THEN /\ tables' = [tables EXCEPT ![ld.t].columns = <<NoChar>>]
                    /\ loads' = [loads EXCEPT ![k].pc = "callback"]
                    /\ frames' = frames
               ELSE /\ loads' = [loads EXCEPT ![k].pc = "thrown",
                                              ![k].err = TypeErrorMsg]
                    /\ UNCHANGED <<frames, tables>>
          ELSE LET cs == ColumnSetUp(ld.header, recs)
               IN /\ tables' = [tables EXCEPT ![ld.t] =
                                   AddRows([tb EXCEPT !.columns = cs.columns],
                                           cs.data, 1)]
                  /\ frames' = [frames EXCEPT ![ld.frame].records = cs.data]
                  /\ loads' = [loads EXCEPT ![k].pc = "callback"]
    /\ UNCHANGED soloVars

\* files.js:496-498: the success callback of call k, when one was passed.
PairInvokeCallback(k) ==
    /\ loads[k].pc = "callback"
    /\ LET ld == loads[k]
           called == IF ld.callback THEN Append(ld.calls, tables[ld.t])
                     ELSE ld.calls
       IN \/ loads' = [loads EXCEPT ![k].pc = "decrement", ![k].calls = called]
          \/ /\ ld.callback
             /\ loads' = [loads EXCEPT ![k].pc = "thrown", ![k].calls = called,
                                       ![k].err = CallbackThrew]
    /\ UNCHANGED <<frames, tables>>
    /\ UNCHANGED soloVars

\* files.js:500: self._decrementPreload() of call k, on the count of the
\* sketch both calls were made on.
PairDecrementPreload(k) ==
    /\ loads[k].pc = "decrement"
    /\ loads' = [loads EXCEPT ![k].pc = "done"]
    /\ preloadCount' = decrementPreload(preloadCount)
    /\ UNCHANGED <<frames, tables>>
    /\ UNCHANGED <<pc, call, sep, header, callback, errorCallback, resp, state,
                   records, offset, currentRecord, t, calls, errCalls, err, origin,
                   iterations, otherPending>>

\* files.js:502-511 with 1002-1008: the error handler of call k.
PairErrorHandler(k) ==
    /\ loads[k].pc = "thrown"
    /\ LET ld == loads[k]
       IN IF ld.errorCallback
          THEN loads' = [loads EXCEPT ![k].pc = "errored",
                                      ![k].errCalls = Append(@, ld.err)]
          ELSE loads' = [loads EXCEPT ![k].pc = "rethrown"]
    /\ UNCHANGED <<frames, tables>>
    /\ UNCHANGED soloVars

NextPair ==
    \/ \E k \in Loads : PairCall(k)
    \/ \E k \in Loads : PairRejects(k)
    \/ \E k \in Loads : PairRespond(k)
    \/ \E k \in Loads : PairScan(k)
    \/ \E k \in Loads : PairMaterialize(k)
    \/ \E k \in Loads : PairInvokeCallback(k)
    \/ \E k \in Loads : PairDecrementPreload(k)
    \/ \E k \in Loads : PairErrorHandler(k)

\* The sketch has made no call yet; the two loads are the loaders its
\* preload count waits for.
InitPair ==
    /\ pc = "idle"
    /\ call = NoCall
    /\ otherPending = FALSE
    /\ preloadCount = 2     \* one for each of the two loads
    /\ sep = COMMA
    /\ header = FALSE
    /\ callback = FALSE
    /\ errorCallback = FALSE
    /\ resp = <<>>
    /\ state = [currentState |-> NoState, token |-> <<>>, escaped |-> FALSE]
    /\ records = <<>>
    /\ offset = 0
    /\ currentRecord = Null
    /\ t = NewTable
    /\ calls = <<>>
    /\ errCalls = <<>>
    /\ err = NoError
    /\ origin = NoTable
    /\ iterations = 0
    /\ loads = [k \in Loads |-> IdleLoad]
    /\ frames = <<>>
    /\ tables = <<>>

SpecPair == InitPair /\ [][NextPair]_vars

Next ==
    \/ Invoke
    \/ loadTable
    \/ httpDo
    \/ Respond
    \/ RespondEncoded
    \/ httpDoRejects
    \/ OtherLoaderResponds
    \/ Scan
    \/ Materialize
    \/ InvokeCallback
    \/ DecrementPreload
    \/ ErrorHandler

Spec == Init /\ [][Next]_vars

\* The parse loop on its own: the callback has just received a response,
\* any of the texts with either separator, and has set up its locals.
InitLoop ==
    /\ pc = "scan"
    /\ call = NoCall
    /\ otherPending = FALSE
    /\ preloadCount = 1
    /\ sep \in {COMMA, TAB}
    /\ header = FALSE
    /\ callback = FALSE
    /\ errorCallback = FALSE
    /\ resp \in ShortTexts \cup Examples
    /\ state = [currentState |-> NoState, token |-> <<>>, escaped |-> FALSE]
    /\ records = <<>>
    /\ offset = 0
    /\ currentRecord = Null
    /\ t = NewTable
    /\ calls = <<>>
    /\ errCalls = <<>>
    /\ err = NoError
    /\ origin = NoTable
    /\ iterations = 0
    /\ loads = [k \in Loads |-> IdleLoad]
    /\ frames = <<>>
    /\ tables = <<>>

\* The callback runs to completion once it has started: the loop keeps
\* taking iterations until it breaks or throws.
LoopSpec == InitLoop /\ [][Scan]_vars /\ WF_vars(Scan)

TypeOK ==
    /\ pc \in PcValues
    /\ sep \in {COMMA, TAB}
    /\ header \in BOOLEAN
    /\ offset \in 0..(Len(resp) + 2)


(***************************************************************************)
(* Reference notions the properties are stated with, read off the input    *)
(* text alone: where quoted spans lie, and how many separators each raw    *)
(* record span holds outside them.                                         *)
(*   mode "start":  at the first character of a field                      *)
(*   mode "plain":  inside an unquoted field                               *)
(*   mode "quoted": between an opening quote and its closing lone quote    *)
(*   mode "closed": after the closing quote, before the field's end        *)
(***************************************************************************)
RECURSIVE RefMode(_, _, _, _)
RefMode(text, sp, i, m) ==
    IF i > Len(text) THEN m
    ELSE LET c == text[i]
         IN IF m = "quoted"
            THEN IF c = QUOTE
                 THEN IF i < Len(text) /\ text[i + 1] = QUOTE
                      THEN RefMode(text, sp, i + 2, "quoted")
                      ELSE RefMode(text, sp, i + 1, "closed")
                 ELSE RefMode(text, sp, i + 1, "quoted")
            ELSE IF c \in {sp, CR, LF} THEN RefMode(text, sp, i + 1, "start")
            ELSE IF m = "start" /\ c = QUOTE THEN RefMode(text, sp, i + 1, "quoted")
            ELSE RefMode(text, sp, i + 1, IF m = "start" THEN "plain" ELSE m)

\* The end of input is reached while a quoted span is open.
OpenQuoteAtEnd(text, sp) == RefMode(text, sp, 1, "start") = "quoted"

RECURSIVE RefSepCounts(_, _, _, _, _)
\* For each raw record span of the text (the spans between line terminators
\* outside quoted spans, the last one running to the end of input), the
\* number of separators outside quoted spans in it.
RefSepCounts(text, sp, i, m, n) ==
    IF i > Len(text) THEN <<n>>
    ELSE LET c == text[i]
         IN IF m = "quoted"
            THEN IF c = QUOTE
                 THEN IF i < Len(text) /\ text[i + 1] = QUOTE
                      THEN RefSepCounts(text, sp, i + 2, "quoted", n)
                      ELSE RefSepCounts(text, sp, i + 1, "closed", n)
                 ELSE RefSepCounts(text, sp, i + 1, "quoted", n)
            ELSE IF c = CR
            THEN <<n>> \o RefSepCounts(text, sp,
                              IF i < Len(text) /\ text[i + 1] = LF THEN i + 2 ELSE i + 1,
                              "start", 0)
            ELSE IF c = LF THEN <<n>> \o RefSepCounts(text, sp, i + 1, "start", 0)
            ELSE IF c = sp THEN RefSepCounts(text, sp, i + 1, "start", n + 1)
            ELSE IF m = "start" /\ c = QUOTE
            THEN RefSepCounts(text, sp, i + 1, "quoted", n)
            ELSE RefSepCounts(text, sp, i + 1, IF m = "start" THEN "plain" ELSE m, n)

RECURSIVE RefUnquotedLines(_, _, _, _, _)
\* The records of a text without quotes, one per terminated line, nothing
\* for what follows the last terminator.
RefUnquotedLines(text, sp, i, rec, tok) ==
    IF i > Len(text) THEN <<>>
    ELSE LET c == text[i]
         IN IF c = CR /\ i < Len(text) /\ text[i + 1] = LF
            THEN <<Append(rec, tok)>> \o RefUnquotedLines(text, sp, i + 2, <<>>, <<>>)
            ELSE IF c \in {CR, LF}
            THEN <<Append(rec, tok)>> \o RefUnquotedLines(text, sp, i + 1, <<>>, <<>>)
            ELSE IF c = sp THEN RefUnquotedLines(text, sp, i + 1, Append(rec, tok), <<>>)
            ELSE RefUnquotedLines(text, sp, i + 1, rec, Append(tok, c))

HasNoQuote(text) == \A i \in 1..Len(text) : text[i] # QUOTE
EndsWithTerminator(text) == text # <<>> /\ text[Len(text)] \in {CR, LF}
HasCR(f) == \E i \in 1..Len(f) : f[i] = CR

Failed == pc \in {"thrown", "errored", "rethrown"}
\* The tokenizer has returned: records is its output.
Tokenized == pc = "materialize"
\* The response callback has left the parse loop, one way or the other.
PastScan == pc \in {"materialize", "callback", "decrement", "done", "thrown",
                    "errored", "rethrown"}

(***************************************************************************)
(* Properties.                                                             *)
(***************************************************************************)

\* C1: if the end of input is reached while a quoted span is open, the parse
\* fails with the unclosed-quote error and never returns records.
C1_UnclosedQuoteFails ==
    (PastScan /\ OpenQuoteAtEnd(resp, sep)) => (Failed /\ err = UnclosedQuote)

C1_Witness == pc = "thrown" /\ resp = ExUnclosed /\ err = UnclosedQuote

\* A response text was delivered and the callback has left the parse loop.
ParsedResponse == PastScan /\ err \notin RequestErrors

\* C2: the unclosed quote is the only fatal condition: when every opened
\* quoted span is closed before the end of input, neither the tokenizer nor
\* the materializer raises an error (the only error left is one thrown by
\* the user's callback once the table is complete).
C2_OnlyFatalCondition ==
    /\ err \in {UnclosedQuote, TypeErrorMsg}
         => (ParsedResponse /\ Failed /\ OpenQuoteAtEnd(resp, sep)
             /\ err = UnclosedQuote)
    /\ (ParsedResponse /\ ~OpenQuoteAtEnd(resp, sep))
         => /\ err \in {NoError, CallbackThrew}
            /\ Failed => (err = CallbackThrew /\ calls = <<t>>)

C2_Witness ==
    /\ pc = "done"
    /\ resp = ExIrregular
    /\ sep = COMMA
    /\ ~header
    /\ Len(t.rows) = 2

\* C3: a parse that fails with the unclosed-quote error delivers nothing:
\* the table keeps zero rows and its empty column list, and the success
\* callback is not invoked.
C3_NoPartialOutput ==
    (Failed /\ err = UnclosedQuote) => (t = NewTable /\ calls = <<>>)

C3_Witness ==
    /\ pc \in {"errored", "rethrown"}
    /\ resp = ExRecordsThenUnclosed
    /\ sep = COMMA
    /\ callback
    /\ records = << << <<"a">>, <<"b">> >> >>

\* C4 (as claimed): tokenizing the empty input yields zero records.
C4_EmptyInputNoRecords ==
    (Tokenized /\ resp = <<>>) => records = <<>>

\* C5 (as claimed): N unquoted lines, each followed by a line terminator,
\* yield exactly the N records of those lines.
C5_TerminatedLines ==
    (Tokenized /\ HasNoQuote(resp) /\ EndsWithTerminator(resp))
        => records = RefUnquotedLines(resp, sep, 1, <<>>, <<>>)

\* C6: inside a quoted span every character other than a quote or CR, the
\* separator and LF included, is appended to the field and closes neither
\* the field nor the record; a,"b,c",d is one record of three fields and
\* "line1 LF line2",x one record of two.
C6_QuotedContentLiteral ==
    [][/\ (/\ pc = "scan"
           /\ state.currentState = MID_TOKEN
           /\ state.escaped
           /\ CharAt(resp, offset) \notin {QUOTE, CR, NoChar})
          => /\ pc' = "scan"
             /\ state'.token = Append(state.token, CharAt(resp, offset))
             /\ state'.escaped
             /\ state'.currentState = MID_TOKEN
             /\ records' = records
             /\ currentRecord' = currentRecord
       /\ (pc' = "materialize" /\ resp = ExQuotedSep /\ sep = COMMA)
          => records' = << << <<"a">>, <<"b", COMMA, "c">>, <<"d">> >> >>
       /\ (pc' = "materialize" /\ resp = ExQuotedLF /\ sep = COMMA)
          => records' = << << <<"l", "i", "n", "e", "1", LF, "l", "i", "n", "e", "2">>,
                              <<"x">> >> >>
      ]_vars

C6_Witness ==
    /\ Tokenized
    /\ resp = ExQuotedSep
    /\ sep = COMMA
    /\ records = << << <<"a">>, <<"b", COMMA, "c">>, <<"d">> >> >>

\* C7: inside a quoted span two consecutive quotes add exactly one quote to
\* the field, both are consumed and the span stays open; "a""b" is the one
\* field a"b.
C7_DoubledQuote ==
    [][/\ (/\ pc = "scan"
           /\ state.currentState = MID_TOKEN
           /\ state.escaped
           /\ CharAt(resp, offset) = QUOTE
           /\ CharAt(resp, offset + 1) = QUOTE)
          => /\ pc' = "scan"
             /\ state'.token = Append(state.token, QUOTE)
             /\ offset' = offset + 2
             /\ state'.escaped
             /\ state'.currentState = MID_TOKEN
       /\ (pc' = "materialize" /\ resp = ExDoubledQuote)
          => records' = << << <<"a", QUOTE, "b">> >> >>
      ]_vars

C7_Witness ==
    /\ Tokenized
    /\ resp = ExDoubledQuote
    /\ records = << << <<"a", QUOTE, "b">> >> >>

\* C8: with balanced quoting, the i-th record has one field more than there
\* are separators outside quoted spans in the i-th raw record span.
C8_FieldCount ==
    (Tokenized /\ ~OpenQuoteAtEnd(resp, sep)) =>
        LET ref == RefSepCounts(resp, sep, 1, "start", 0)
        IN /\ Len(records) = Len(ref)
           /\ \A i \in 1..Len(records) : Len(records[i]) = ref[i] + 1

C8_Witness ==
    /\ Tokenized
    /\ resp = ExQuotedSep
    /\ sep = COMMA
    /\ Len(records) = 1
    /\ Len(records[1]) = 3

\* The rows of the loaded table as plain field lists.
RowValues == [i \in 1..Len(t.rows) |-> t.rows[i].arr]

\* C9 (as claimed): any table, written with a header line, every field in
\* quotes and embedded quotes doubled, loads back with the same column
\* names and the same rows.
C9_RoundTripAnyTable ==
    (origin # NoTable /\ PastScan /\ pc # "materialize")
        => /\ pc \in {"callback", "decrement", "done"} \/ err = CallbackThrew
           /\ t.columns = Head(origin)
           /\ RowValues = Tail(origin)

\* The table round-trips: no field holds a CR, and no data row is a single
\* field that is empty or the literal undefined.
Faithful(tb) ==
    /\ \A i \in 1..Len(tb) : \A j \in 1..Len(tb[i]) : ~HasCR(tb[i][j])
    /\ \A i \in 2..Len(tb) : ~(Len(tb[i]) = 1 /\ tb[i][1] \in {<<>>, Undefined})

\* C9 (amended): the round trip holds for every table without a CR in a
\* field and without a data row that is a single empty or 'undefined' field.
C9_RoundTrip ==
    (origin # NoTable /\ Faithful(origin) /\ PastScan /\ pc # "materialize")
        => /\ pc \in {"callback", "decrement", "done"} \/ err = CallbackThrew
           /\ t.columns = Head(origin)
           /\ RowValues = Tail(origin)

C9_Witness ==
    /\ pc = "done"
    /\ origin = << << <<"a">> >>, << <<QUOTE, COMMA, LF>>, <<>> >> >>
    /\ t.columns = << <<"a">> >>
    /\ RowValues = << << <<QUOTE, COMMA, LF>>, <<>> >> >>

\* No field, finished or in progress, holds a CR.
NoCRInFields ==
    /\ ~HasCR(state.token)
    /\ \A i \in 1..Len(records) : \A j \in 1..Len(records[i]) : ~HasCR(records[i][j])
    /\ currentRecord # Null
         => \A j \in 1..Len(currentRecord[1]) : ~HasCR(currentRecord[1][j])
    /\ \A i \in 1..Len(t.rows) :
         \A j \in 1..Len(t.rows[i].arr) : ~HasCR(t.rows[i].arr[j])

\* C10: no field the tokenizer produces holds a CR, for any input: a CR
\* outside a quoted span closes the record, a CR inside one is dropped.
C10_NoCRInFields ==
    /\ []NoCRInFields
    /\ [][(pc = "scan" /\ CharAt(resp, offset) = CR) =>
            IF state.escaped
            THEN /\ state' = state
                 /\ records' = records
                 /\ currentRecord' = currentRecord
                 /\ offset' = offset + 1
            ELSE /\ Len(records') = Len(records) + 1
                 /\ currentRecord' = Null
                 /\ state'.currentState = POST_RECORD
         ]_vars

C10_Witness ==
    /\ Tokenized
    /\ resp = ExCRInAndOut
    /\ records = << << <<"a", "b">> >>, << <<"c">> >> >>


\* The fields of the record in progress, none when no record is open.
CurFields == IF currentRecord = Null THEN <<>> ELSE currentRecord[1]
\* The character the next iteration reads.
CurChar == CharAt(resp, offset)
\* The next character is the first one of a field.
AtFieldStart == currentRecord = Null \/ state.currentState = PRE_TOKEN

\* The input is not empty, ends outside a quoted span, and its last
\* character is not a line terminator: a field or record is in progress.
RefInProgress(text, sp) ==
    /\ text # <<>>
    /\ RefMode(text, sp, 1, "start") # "quoted"
    /\ ~(RefMode(text, sp, 1, "start") = "start" /\ text[Len(text)] \in {CR, LF})

\* C11: when the input ends without a trailing terminator while a field or
\* record is in progress and no quoted span is open, the pending token is
\* closed as the last field and the pending record emitted as one final
\* record; a,b gives [[a,b]] and a, gives [[a, '']].
C11_FlushAtEnd ==
    [][/\ (pc = "scan" /\ offset = Len(resp) /\ RefInProgress(resp, sep))
          => /\ currentRecord # Null
             /\ pc' = "materialize"
             /\ records' = Append(records, Append(CurFields, state.token))
             /\ currentRecord' = Null
       /\ (pc' = "materialize" /\ resp = ExNoNewline /\ sep = COMMA)
          => records' = << << <<"a">>, <<"b">> >> >>
       /\ (pc' = "materialize" /\ resp = ExTrailingSep /\ sep = COMMA)
          => records' = << << <<"a">>, <<>> >> >>
      ]_vars

C11_Witness ==
    /\ Tokenized
    /\ resp = ExTrailingSep
    /\ sep = COMMA
    /\ records = << << <<"a">>, <<>> >> >>

\* The record is one the materializer keeps as a row.
KeptRecord(rec) == rec \notin {<< <<>> >>, <<Undefined>>}

\* C12: with the header flag set the column names are the fields of the
\* first record, which never becomes a row; a single-record input gives
\* those column names and no rows.
C12_HeaderRecord ==
    [][(pc = "materialize" /\ header)
          => /\ t'.columns = records[1]
             /\ Len(t'.rows) <= Len(records) - 1
             /\ RowValues' = SelectSeq(Tail(records), KeptRecord)
             /\ Len(records) = 1 => t'.rows = <<>>
      ]_vars

C12_Witness ==
    /\ pc = "callback"
    /\ header
    /\ sep = COMMA
    /\ resp = ExNoNewline
    /\ t.columns = << <<"a">>, <<"b">> >>
    /\ t.rows = <<>>

DigitChars == <<"0", "1", "2", "3", "4", "5", "6", "7", "8", "9">>

RECURSIVE IndexName(_)
\* The decimal string of the index n.
IndexName(n) ==
    IF n < 10 THEN <<DigitChars[n + 1]>>
    ELSE IndexName(n \div 10) \o <<DigitChars[(n % 10) + 1]>>

\* C13 (as claimed): without the header flag the column names are "0",
\* "1", ..., "k-1" for the k fields of the first record, which stays data.
C13_IndexColumnNames ==
    (pc = "callback" /\ ~header)
        => /\ t.columns = [i \in 1..Len(records[1]) |-> IndexName(i - 1)]
           /\ RowValues = SelectSeq(records, KeptRecord)

\* C14: once the header record is removed, a record is dropped exactly when
\* it is a single field that is empty or the literal undefined, wherever it
\* stands; every other record becomes one row, in order.
C14_RowExclusion ==
    [][pc = "materialize"
          => RowValues' = SelectSeq(IF header THEN Tail(records) ELSE records,
                                    KeptRecord)
      ]_vars

C14_Witness ==
    /\ pc = "callback"
    /\ ~header
    /\ sep = COMMA
    /\ resp = ExLiteralUndefined
    /\ RowValues = << << <<"a">> >>, << <<"b">>, <<"c">> >> >>

\* The positions of the separator options among the arguments.
SepOptions(args) == {i \in 1..Len(args) : args[i] \in {"csv", "tsv"}}

\* The separator the documentation gives a call with at most one separator
\* option: that option's, else tab for the extension tsv, else comma.
ExpectedSep(c) ==
    IF SepOptions(c.args) = {}
    THEN IF c.ext = "tsv" THEN TAB ELSE COMMA
    ELSE LET i == CHOOSE j \in SepOptions(c.args) : TRUE
         IN IF c.args[i] = "tsv" THEN TAB ELSE COMMA

\* C15: the separator is comma by default, tab for the extension tsv, and
\* a single csv or tsv option overrides the extension; the header flag is
\* set exactly when the option header is passed.
C15_SeparatorSelection ==
    /\ pc = "request"
         => /\ Cardinality(SepOptions(call.args)) <= 1
            /\ sep = ExpectedSep(call)
            /\ header = (\E i \in 1..Len(call.args) : call.args[i] = "header")
    /\ pc = "argerror" => Cardinality(SepOptions(call.args)) >= 2

C15_Witness ==
    /\ pc = "request"
    /\ call = [ext |-> "tsv", args |-> <<"header", "csv">>]
    /\ sep = COMMA
    /\ header

\* The error callback has been handed exactly the error, once.
C16_Propagated ==
    err = UnclosedQuote
        => /\ Failed
           /\ pc = "thrown" => errCalls = <<>>
           /\ pc = "errored" => (errorCallback /\ errCalls = <<UnclosedQuote>>)
           /\ pc = "rethrown" => (~errorCallback /\ errCalls = <<>>)

\* C16: an unclosed-quote failure is propagated: the error callback, when
\* one was passed, is invoked with the error exactly once, otherwise the
\* error is rethrown; the parse is not resumed or retried.
C16_ErrorPropagation ==
    /\ []C16_Propagated
    /\ [][Failed => /\ Failed'
                    /\ pc # "thrown" => pc' = pc
                    /\ UNCHANGED <<state, records, offset, currentRecord, t, err>>
         ]_vars

C16_Witness ==
    /\ pc = "errored"
    /\ resp = ExUnclosed
    /\ errorCallback
    /\ errCalls = <<UnclosedQuote>>

\* The success callback got the table, and the count of its calls and of
\* the decrements fits the position.
\* The decrements of the count made by this load: the count starts at one
\* per loader and each other loader takes its one when it responds.
OwnDecrements == 1 + (IF otherPending THEN 1 ELSE 0) - preloadCount

C18_Order ==
    /\ Len(calls) <= 1
    /\ (pc \notin {"decrement", "done"} /\ err # CallbackThrew) => calls = <<>>
    /\ pc # "done" => OwnDecrements = 0
    /\ pc \in {"decrement", "done"}
         => /\ calls = IF callback THEN <<t>> ELSE <<>>
            /\ RowValues = SelectSeq(records, KeptRecord)
    /\ pc = "done" => OwnDecrements = 1

\* C18: on a successful load the success callback (when one was passed) is
\* invoked exactly once, with the table, after every row was added and
\* before the preload count is decremented, which happens exactly once.
C18_CallbackThenDecrement ==
    /\ []C18_Order
    /\ [][(pc \in {"callback", "decrement", "done"}) => (t' = t)]_vars

C18_Witness ==
    /\ pc = "done"
    /\ callback
    /\ resp = ExIrregular
    /\ sep = COMMA
    /\ ~header
    /\ Len(t.rows) = 2
    /\ calls = <<t>>
    /\ preloadCount = 0

\* C19: a quote as the first character of a field opens a quoted span
\* (escaped, MID_TOKEN) and the next lone quote closes it (not escaped,
\* POST_TOKEN); neither quote is appended, so "" is one empty field.
C19_QuotesOpenAndClose ==
    [][/\ (pc = "scan" /\ AtFieldStart /\ CurChar = QUOTE)
          => /\ pc' = "scan"
             /\ state' = [currentState |-> MID_TOKEN, token |-> <<>>, escaped |-> TRUE]
             /\ currentRecord' = <<CurFields>>
             /\ records' = records
             /\ offset' = offset + 1
       /\ (/\ pc = "scan"
           /\ state.currentState = MID_TOKEN
           /\ state.escaped
           /\ CurChar = QUOTE
           /\ CharAt(resp, offset + 1) # QUOTE)
          => /\ pc' = "scan"
             /\ state' = [currentState |-> POST_TOKEN, token |-> state.token,
                          escaped |-> FALSE]
             /\ currentRecord' = currentRecord
             /\ records' = records
             /\ offset' = offset + 1
       /\ (pc' = "materialize" /\ resp = ExEmptyQuoted)
          => records' = << << <<>> >> >>
      ]_vars

C19_Witness ==
    /\ Tokenized
    /\ resp = ExEmptyQuoted
    /\ records = << << <<>> >> >>

\* C20: a character other than a quote at the start of a field is handled
\* in the same step as in an unquoted field: the separator closes an empty
\* field, CR or LF closes the record with an empty last field, and any
\* other character becomes the first character of the token.
C20_FieldStartCharacter ==
    [][(pc = "scan" /\ AtFieldStart /\ CurChar \notin {QUOTE, NoChar})
          => /\ pc' = "scan"
             /\ ~state'.escaped
             /\ IF CurChar \in {CR, LF}
                THEN /\ records' = Append(records, Append(CurFields, <<>>))
                     /\ currentRecord' = Null
                     /\ state'.currentState = POST_RECORD
                ELSE IF CurChar = sep
                THEN /\ currentRecord' = <<Append(CurFields, <<>>)>>
                     /\ records' = records
                     /\ state'.currentState = PRE_TOKEN
                     /\ state'.token = <<>>
                ELSE /\ state'.token = <<CurChar>>
                     /\ state'.currentState = MID_TOKEN
                     /\ currentRecord' = <<CurFields>>
                     /\ records' = records
      ]_vars

C20_Witness ==
    /\ pc = "scan"
    /\ resp = <<COMMA, "a", LF, LF>>
    /\ sep = COMMA
    /\ offset = 4
    /\ records = << << <<>>, <<"a">> >>, << <<>> >> >>


RECURSIVE RunAlone(_, _, _)
\* The parse loop run from the locals l to its end, on its own.
RunAlone(l, text, sp) ==
    LET r == Iteration(l, text, sp)
    IN IF r.ctl = "loop" THEN RunAlone(r.l, text, sp) ELSE r

RECURSIVE AfterSteps(_, _, _)
\* The locals of a parse run on its own after n iterations.
AfterSteps(text, sp, n) ==
    IF n = 0 THEN InitialLocals
    ELSE Iteration(AfterSteps(text, sp, n - 1), text, sp).l

\* The table a call gets when it runs alone.
TableAlone(text, sp, hdr) ==
    LET cs == ColumnSetUp(hdr, RunAlone(InitialLocals, text, sp).l.records)
    IN AddRows([NewTable EXCEPT !.columns = cs.columns], cs.data, 1)

\* What call k can reach: its own locals, the locals of its callback and
\* its table.
LoadView(k) ==
    [load |-> loads[k],
     frame |-> IF loads[k].frame = NoRef THEN Null ELSE frames[loads[k].frame],
     table |-> IF loads[k].t = NoRef THEN NoTable ELSE tables[loads[k].t]]

\* The response of call k was delivered to its callback.
PairParsed(k) ==
    /\ loads[k].pc \in {"materialize", "callback", "decrement", "done", "thrown",
                        "errored", "rethrown"}
    /\ loads[k].err \notin RequestErrors

\* The callback of call k has filled the table.
PairFilled(k) ==
    \/ loads[k].pc \in {"callback", "decrement", "done"}
    \/ loads[k].err = CallbackThrew

\* Each call is where it would be had it run alone, and the two calls hold
\* different tables and different locals.
C17_Alone ==
    /\ \A k \in Loads :
          LET ld == loads[k]
              alone == RunAlone(InitialLocals, ld.resp, ld.sep)
              tbl == TableAlone(ld.resp, ld.sep, ld.header)
          IN /\ PairFilled(k) => tables[ld.t] = tbl
             /\ (ld.t # NoRef /\ ~PairFilled(k)) => tables[ld.t] = NewTable
             /\ ld.calls = IF ld.callback /\ (ld.pc \in {"decrement", "done"}
                                              \/ ld.err = CallbackThrew)
                           THEN <<tbl>> ELSE <<>>
             /\ PairParsed(k)
                  => (ld.err = UnclosedQuote <=> alone.ctl = "throw")
             /\ PairParsed(k)
                  => frames[ld.frame] =
                        [alone.l EXCEPT !.records =
                            IF PairFilled(k) THEN ColumnSetUp(ld.header, @).data
                            ELSE @]
             /\ ld.pc = "scan"
                  => \E n \in 0..(Len(ld.resp) + 1) :
                        frames[ld.frame] = AfterSteps(ld.resp, ld.sep, n)
    /\ \A j, k \in Loads :
          j # k => /\ (loads[j].t # NoRef => loads[j].t # loads[k].t)
                   /\ (loads[j].frame # NoRef => loads[j].frame # loads[k].frame)
    /\ preloadCount = 2 - Cardinality({k \in Loads : loads[k].pc = "done"})

\* A step is taken by one call and changes nothing the other call can reach.
C17_OneLoadSteps ==
    \E j \in Loads : \A k \in Loads \ {j} : LoadView(k)' = LoadView(k)

\* C17: two parses on independent inputs share no parser state: in any
\* order of their steps each call's table gets the columns and rows it gets
\* when the call runs alone, its parse fails exactly when it fails alone,
\* its locals are those of its own parse, and no step of one call changes
\* a record, a token, the FSM state or the table of the other.
C17_Isolation ==
    /\ []C17_Alone
    /\ [][C17_OneLoadSteps]_vars

\* Call 1 was made first and answered last; both tables are complete.
C17_Witness ==
    /\ loads[1].pc = "done" /\ loads[2].pc = "done"
    /\ loads[1].t = 1 /\ loads[1].frame = 2
    /\ loads[2].t = 2 /\ loads[2].frame = 1
    /\ loads[1].sep = COMMA /\ loads[1].header
    /\ loads[1].resp = <<"a", COMMA, "b">>
    /\ loads[2].sep = TAB /\ ~loads[2].header
    /\ loads[2].resp = <<"a", LF, TAB, "b", LF>>
    /\ tables[1] = [columns |-> << <<"a">>, <<"b">> >>, rows |-> <<>>]
    /\ tables[2].columns = <<NullName>>
    /\ Len(tables[2].rows) = 2
    /\ tables[2].rows[1].arr = << <<"a">> >>
    /\ tables[2].rows[2].arr = << <<>>, <<"b">> >>
    /\ loads[1].callback /\ loads[1].calls = <<tables[1]>>
    /\ preloadCount = 0


\* C21: outside a quoted span a CR LF pair, a CR not followed by LF and a
\* bare LF each close the current field and the current record exactly
\* once; the LF of a pair is consumed with its CR, so a CR LF gives no empty
\* record, while LF followed by CR closes two records.
C21_LineTerminators ==
    [][/\ (pc = "scan" /\ ~state.escaped /\ CurChar \in {CR, LF})
          => /\ pc' = "scan"
             /\ records' = Append(records, Append(CurFields, state.token))
             /\ currentRecord' = Null
             /\ state'.currentState = POST_RECORD
             /\ offset' = IF CurChar = CR /\ CharAt(resp, offset + 1) = LF
                          THEN offset + 2 ELSE offset + 1
       /\ (pc' = "materialize" /\ resp = ExCRLFPair)
          => records' = << << <<"a">> >>, << <<"b">> >> >>
       /\ (pc' = "materialize" /\ resp = ExLFThenCR)
          => records' = << << <<"a">> >>, << <<>> >>, << <<"b">> >> >>
      ]_vars

C21_Witness ==
    /\ Tokenized
    /\ resp = ExLFThenCR
    /\ records = << << <<"a">> >>, << <<>> >>, << <<"b">> >> >>

\* C22: outside a quoted span the separator closes only the field: the
\* token is appended to the record in progress, the token buffer is emptied,
\* the state is PRE_TOKEN, the record stays open and the emitted records
\* are unchanged.
C22_SeparatorClosesField ==
    [][(pc = "scan" /\ ~state.escaped /\ CurChar = sep)
          => /\ pc' = "scan"
             /\ currentRecord' = <<Append(CurFields, state.token)>>
             /\ state' = [currentState |-> PRE_TOKEN, token |-> <<>>, escaped |-> FALSE]
             /\ records' = records
             /\ offset' = offset + 1
      ]_vars

C22_Witness ==
    /\ pc = "scan"
    /\ resp = <<"a", LF, "a", COMMA>>
    /\ sep = COMMA
    /\ offset = 4
    /\ records = << << <<"a">> >> >>
    /\ currentRecord = << << <<"a">> >> >>
    /\ state = [currentState |-> PRE_TOKEN, token |-> <<>>, escaped |-> FALSE]

\* C23: in POST_TOKEN every character other than the separator, CR and LF,
\* a further quote included, is discarded and leaves the token as it is;
\* "a"b,c with the comma as separator is the record [a, c].
C23_PostTokenDiscards ==
    [][/\ (/\ pc = "scan"
           /\ state.currentState = POST_TOKEN
           /\ CurChar \notin {sep, CR, LF, NoChar})
          => /\ pc' = "scan"
             /\ state' = state
             /\ currentRecord' = currentRecord
             /\ records' = records
             /\ offset' = offset + 1
       /\ (pc' = "materialize" /\ resp = ExStrayAfterQuote /\ sep = COMMA)
          => records' = << << <<"a">>, <<"c">> >> >>
      ]_vars

C23_Witness ==
    /\ Tokenized
    /\ resp = ExStrayAfterQuote
    /\ sep = COMMA
    /\ records = << << <<"a">>, <<"c">> >> >>


\* The loop has left: records returned or the unclosed-quote error raised.
LoopEnded == pc # "scan"

\* C24: the parse loop is one forward pass that always ends: every
\* iteration moves the offset forward, the offset never moves back, and the
\* loop ends, with records or with the unclosed-quote error, after at most
\* Len(resp) + 2 iterations.
C24_ForwardPass ==
    /\ [](iterations <= Len(resp) + 2)
    /\ [](pc = "scan" => iterations <= Len(resp) + 1)
    /\ [][/\ offset' >= offset
          /\ pc = "scan" => /\ offset' > offset
                            /\ iterations' = iterations + 1
                            /\ pc' \in {"scan", "materialize", "thrown"}
                            /\ pc' = "thrown" => err' = UnclosedQuote
         ]_vars
    /\ (pc = "scan") ~> LoopEnded

C24_Witness ==
    /\ Tokenized
    /\ resp = <<"a", LF>>
    /\ iterations = Len(resp) + 2
    /\ offset = Len(resp) + 2


\* The next character is a quote that is not the first character of its
\* field and lies outside a quoted span.
QuoteInsideField ==
    /\ pc = "scan"
    /\ ~AtFieldStart
    /\ ~state.escaped
    /\ CurChar = QUOTE

\* C25 (as claimed): a quote that is not the first character of a field and
\* is outside a quoted span is appended to the token, does not set escaped
\* and cannot cause the unclosed-quote error; a"b is the single field a"b.
C25_QuoteAlwaysAppended ==
    [][/\ QuoteInsideField
          => /\ pc' = "scan"
             /\ state'.token = Append(state.token, QUOTE)
             /\ ~state'.escaped
       /\ (pc' = "materialize" /\ resp = ExQuoteInside)
          => records' = << << <<"a", QUOTE, "b">> >> >>
      ]_vars

\* C25 (amended): such a quote is treated like any other ordinary
\* character: appended to the token in an unquoted field (MID_TOKEN),
\* discarded after a closing quote (POST_TOKEN); in neither case does it set
\* escaped, change the state or the records, or raise the unclosed-quote
\* error; a"b is the single field a"b.
C25_QuoteInsideField ==
    [][/\ QuoteInsideField
          => /\ pc' = "scan"
             /\ state.currentState \in {MID_TOKEN, POST_TOKEN}
             /\ state'.token = IF state.currentState = MID_TOKEN
                               THEN Append(state.token, QUOTE)
                               ELSE state.token
             /\ ~state'.escaped
             /\ state'.currentState = state.currentState
             /\ currentRecord' = currentRecord
             /\ records' = records
             /\ offset' = offset + 1
       /\ (pc' = "materialize" /\ resp = ExQuoteInside)
          => records' = << << <<"a", QUOTE, "b">> >> >>
      ]_vars

C25_Witness ==
    /\ pc = "scan"
    /\ resp = ExQuoteInside
    /\ offset = 2
    /\ state = [currentState |-> MID_TOKEN, token |-> <<"a", QUOTE>>, escaped |-> FALSE]
    /\ currentRecord = << <<>> >>


\* The callback stands between two iterations of the loop, or has just left
\* it by break.
LoopBoundary == pc \in {"scan", "materialize"}

\* C26: at every boundary between loop iterations escaped is true only in
\* MID_TOKEN with a record open, it is false in PRE_TOKEN, POST_TOKEN and
\* POST_RECORD, and the state is POST_RECORD exactly when no record is open
\* and at least one record was closed.
C26_StateConsistency ==
    LoopBoundary
        => /\ state.escaped
                => (state.currentState = MID_TOKEN /\ currentRecord # Null)
           /\ state.currentState \in {PRE_TOKEN, POST_TOKEN, POST_RECORD}
                => ~state.escaped
           /\ state.currentState = POST_RECORD
                <=> (currentRecord = Null /\ records # <<>>)
           /\ state.currentState \in {PRE_TOKEN, MID_TOKEN, POST_TOKEN}
                => currentRecord # Null

C26_Witness ==
    /\ pc = "scan"
    /\ resp = <<LF, QUOTE, "a", QUOTE>>
    /\ offset = 3
    /\ state = [currentState |-> MID_TOKEN, token |-> <<"a">>, escaped |-> TRUE]
    /\ currentRecord = << <<>> >>
    /\ records = << << <<>> >> >>


\* C27: when the tokenizer returns, its record list holds at least one
\* record and every record at least one field, so the column set-up without
\* a header finds the first record whose length it reads and no TypeError
\* is raised.
C27_RecordsNonEmpty ==
    /\ Tokenized
         => /\ records # <<>>
            /\ \A i \in 1..Len(records) : Len(records[i]) >= 1
    /\ err # TypeErrorMsg
    /\ (pc = "callback" /\ ~header)
         => /\ records # <<>>
            /\ Len(t.columns) = Len(records[1])
            /\ Len(t.columns) >= 1

C27_Witness ==
    /\ pc = "callback"
    /\ ~header
    /\ resp = <<>>
    /\ records = << <<Undefined>> >>
    /\ t.columns = <<NullName>>


\* The last character of the text is a line terminator outside a quoted span.
EndsWithOuterTerminator(text, sp) ==
    /\ EndsWithTerminator(text)
    /\ RefMode(text, sp, 1, "start") = "start"

\* The text without its last character.
WithoutLast(text) == SubSeq(text, 1, Len(text) - 1)

\* C28: for an input whose last character is a line terminator outside a
\* quoted span, the rows of the table are the rows the same input gives
\* with that last character removed, separator and header flag the same.
C28_TrailingTerminator ==
    (pc \in {"callback", "decrement", "done"} /\ EndsWithOuterTerminator(resp, sep))
        => t.rows = TableAlone(WithoutLast(resp), sep, header).rows

C28_Witness ==
    /\ pc = "callback"
    /\ resp = <<"a", COMMA, "a", LF>>
    /\ sep = COMMA
    /\ ~header
    /\ records = << << <<"a">>, <<"a">> >>, <<Undefined>> >>
    /\ RowValues = << << <<"a">>, <<"a">> >> >>


\* The records that became rows: records holds the data records once the
\* columns are set up.
KeptRecords == SelectSeq(records, KeptRecord)

\* Column i is the last one of its name.
LastOfName(i) == \A j \in (i + 1)..Len(t.columns) : t.columns[j] # t.columns[i]

\* C29 (as claimed): the name-indexed map of each row is built from the table's column
\* list: its names are the column names, the name of column i is bound to
\* field i of the row (undefined when the row is shorter) unless a later
\* column has the same name, so no field at or past the column count is
\* bound to a name; the positional field list is the record unchanged.
C29_RowObject ==
    pc \in {"callback", "decrement", "done"}
        => /\ Len(t.rows) = Len(KeptRecords)
           /\ \A r \in 1..Len(t.rows) :
                LET row == t.rows[r]
                    rec == KeptRecords[r]
                IN /\ row.arr = rec
                   /\ DOMAIN row.obj = {t.columns[i] : i \in 1..Len(t.columns)}
                   /\ \A i \in 1..Len(t.columns) :
                        LastOfName(i)
                           => row.obj[t.columns[i]] =
                                 IF i <= Len(rec) THEN rec[i] ELSE JsUndefined

\* Nothing has happened but the throw: no table, no request, no response,
\* no callback of either kind, the preload count untouched.
OnlyThrown ==
    /\ err = MultipleSeparators
    /\ t = NewTable
    /\ resp = <<>>
    /\ records = <<>>
    /\ calls = <<>>
    /\ errCalls = <<>>
    /\ OwnDecrements = 0

\* C30: loadTable throws 'Cannot set multiple separator types.' exactly
\* when two or more of its string options are csv or tsv, the same one
\* twice included and the extension tsv not counted; the throw comes from
\* the call itself, before the table is created and the request issued, and
\* no step of the load follows it.
C30_MultipleSeparators ==
    /\ [](pc \in {"request", "argerror"}
            => (pc = "argerror" <=> Cardinality(SepOptions(call.args)) >= 2))
    /\ [](pc = "argerror" => OnlyThrown)
    /\ [](err = MultipleSeparators => pc = "argerror")
    /\ [][(pc = "argerror") => UNCHANGED <<pc, call, sep, header, callback,
                                           errorCallback, resp, state, records,
                                           offset, currentRecord, t, calls,
                                           errCalls, err>>]_vars

C30_Witness ==
    /\ pc = "argerror"
    /\ call = [ext |-> "tsv", args |-> <<"csv", FN, "csv">>]
    /\ err = MultipleSeparators
    /\ errorCallback = FALSE
    /\ callback

====
